---- MODULE Spec2Model ----
(***************************************************************************)
(* Model of zap-syslog: the RFC5424 envelope encoder (encoder.go) on top   *)
(* of zap's JSON encoder, the reconnecting write syncer (syncer.go) and    *)
(* the facility lookup (syslog/syslog.go).  Strings and buffers are        *)
(* sequences of byte values 0..255, as Go strings are.                     *)
(***************************************************************************)
EXTENDS Integers, Sequences, FiniteSets, TLC

VARIABLES
    cfg,      \* *SyslogEncoderConfig shared by the encoder and its clones
    cfgIn,    \* the SyslogEncoderConfig value passed to NewSyslogEncoder
    env,      \* what os.Hostname() / os.Getpid() answered at construction
    encs,     \* the syslogEncoder instances: the state of each one's je
    ret,      \* what EncodeEntry returned, until the caller frees the buffer
    adds,     \* field-adding calls made so far, on whichever instance
    jeKind,   \* which jsonEncoder implementation backs the instances
    added,    \* history: per instance, the field-adding calls it was given
              \* or had inherited from its source when it was cloned
    syncer,   \* the connSyncer: its network, raddr and conn fields
    conns,    \* every connection net.Dial has returned, in order: its state
    call,     \* the last call on the syncer that returned, and what it did
    threads,  \* the goroutines inside Write on a shared syncer
    started,  \* Write calls started by those goroutines
    writeFailed, \* history: some write of those goroutines has failed
    resets,   \* connections of the shared syncer the server has closed
    lookup    \* the last FacilityPriority call: its argument and its answer

encoderVars == <<cfg, cfgIn, env, encs, ret, adds, jeKind, added>>

syncerVars == <<syncer, conns, call>>

threadVars == <<threads, started, writeFailed, resets>>

facilityVars == <<lookup>>

vars == <<encoderVars, syncerVars, threadVars, facilityVars>>

None == [none |-> TRUE]

(***************************************************************************)
(* Bounds of the model.                                                    *)
(***************************************************************************)
MaxEncoders == 3     \* syslogEncoder instances alive (original + clones)
MaxAdds == 1         \* field-adding calls, over all instances
MaxCalls == 4        \* calls made on the syncer, one after the other
MaxThreads == 2      \* goroutines that share one syncer
MaxStarted == 3      \* Write calls those goroutines start, in all
MaxResets == 1       \* connections the server closes under those goroutines

(***************************************************************************)
(* Byte-sequence helpers.                                                  *)
(***************************************************************************)
\* n copies of s, one after the other.
Repeat(s, n) == [i \in 1..(n * Len(s)) |-> s[((i - 1) % Len(s)) + 1]]

IsPrefix(p, s) == Len(p) <= Len(s) /\ SubSeq(s, 1, Len(p)) = p

IsSuffix(p, s) == Len(p) <= Len(s) /\ SubSeq(s, Len(s) - Len(p) + 1, Len(s)) = p

\* First index >= from at which byte b occurs in s, 0 when it does not.
IndexFrom(s, b, from) ==
    LET at == {i \in from..Len(s) : s[i] = b}
    IN  IF at = {} THEN 0 ELSE CHOOSE i \in at : \A j \in at : i <= j

\* Last index at which a byte of s satisfies Test, 0 when none does.
LastIndexWhere(s, Test(_)) ==
    LET at == {i \in 1..Len(s) : Test(s[i])}
    IN  IF at = {} THEN 0 ELSE CHOOSE i \in at : \A j \in at : j <= i

\* Bitwise AND of two non-negative integers.
RECURSIVE BitAnd(_, _)
BitAnd(a, b) ==
    IF a = 0 \/ b = 0 THEN 0
    ELSE 2 * BitAnd(a \div 2, b \div 2) + (IF a % 2 = 1 /\ b % 2 = 1 THEN 1 ELSE 0)

\* Bitwise OR of two non-negative integers.
RECURSIVE BitOr(_, _)
BitOr(a, b) ==
    IF a = 0 THEN b
    ELSE IF b = 0 THEN a
    ELSE 2 * BitOr(a \div 2, b \div 2) + (IF a % 2 = 1 \/ b % 2 = 1 THEN 1 ELSE 0)

\* x & mask for a Go int x (two's complement) and a mask below 2^8: only the
\* low eight bits of x take part, and for x < 0 they are those of x mod 2^8.
AndMask8(x, mask) == BitAnd(x % 256, mask)

\* Decimal digits of a non-negative integer.
RECURSIVE Digits(_)
Digits(n) == IF n < 10 THEN <<48 + n>> ELSE Digits(n \div 10) \o <<48 + (n % 10)>>

\* buffer.AppendInt / strconv.AppendInt(_, n, 10).
AppendInt(n) == IF n < 0 THEN <<45>> \o Digits(0 - n) ELSE Digits(n)

\* Width-w zero-padded decimal, as time.Format writes its numeric fields.
Pad(n, w) == Repeat(<<48>>, w - Len(Digits(n))) \o Digits(n)

IsDigits(s) == Len(s) > 0 /\ \A i \in 1..Len(s) : s[i] \in 48..57

\* Value of a sequence of decimal digits.
RECURSIVE Atoi(_)
Atoi(s) == IF Len(s) = 0 THEN 0
           ELSE 10 * Atoi(SubSeq(s, 1, Len(s) - 1)) + (s[Len(s)] - 48)

(***************************************************************************)
(* UTF-8 decoding, as the range loop inside strings.Map performs it.       *)
(***************************************************************************)
IsCont(s, i) == i <= Len(s) /\ s[i] \in 128..191

InRange(s, i, lo, hi) == i <= Len(s) /\ s[i] \in lo..hi

\* The rune starting at s[i] and the number of bytes it takes; a byte that
\* starts no valid encoding decodes as utf8.RuneError (U+FFFD) of width 1.
DecodeRune(s, i) ==
    LET b == s[i]
        bad == [r |-> 65533, w |-> 1]
        lo2 == IF b = 224 THEN 160 ELSE IF b = 240 THEN 144 ELSE 128
        hi2 == IF b = 237 THEN 159 ELSE IF b = 244 THEN 143 ELSE 191
    IN  IF b < 128 THEN [r |-> b, w |-> 1]
        ELSE IF b < 194 \/ b > 244 THEN bad
        ELSE IF b < 224 THEN
            IF IsCont(s, i + 1)
            THEN [r |-> (b - 192) * 64 + (s[i + 1] - 128), w |-> 2]
            ELSE bad
        ELSE IF b < 240 THEN
            IF InRange(s, i + 1, lo2, hi2) /\ IsCont(s, i + 2)
            THEN [r |-> (b - 224) * 4096 + (s[i + 1] - 128) * 64 + (s[i + 2] - 128),
                  w |-> 3]
            ELSE bad
        ELSE
            IF InRange(s, i + 1, lo2, hi2) /\ IsCont(s, i + 2) /\ IsCont(s, i + 3)
            THEN [r |-> (b - 240) * 262144 + (s[i + 1] - 128) * 4096
                        + (s[i + 2] - 128) * 64 + (s[i + 3] - 128),
                  w |-> 4]
            ELSE bad

\* Whether the range loop over s reaches index i as the start of a rune.  A
\* byte outside 128..191 always starts one; a continuation byte does unless a
\* valid multi-byte rune that starts up to three bytes earlier covers it.
IsRuneStart(s, i) ==
    \/ s[i] \notin 128..191
    \/ \A j \in 1..3 :
          i - j >= 1 /\ s[i - j] \notin 128..191 => DecodeRune(s, i - j).w <= j

(***************************************************************************)
(* Constants of encoder.go and syslog/syslog.go.                           *)
(***************************************************************************)
version == 1
severityMask == 7
facilityMask == 248
nilValue == <<45>>
maxHostnameLen == 255
maxAppNameLen == 48

NonTransparentFraming == 0
OctetCountingFraming == 1
Framings == {NonTransparentFraming, OctetCountingFraming}

LOG_EMERG == 0
LOG_ALERT == 1
LOG_CRIT == 2
LOG_ERR == 3
LOG_WARNING == 4
LOG_NOTICE == 5
LOG_INFO == 6
LOG_DEBUG == 7

LOG_KERN == 0 * 8
LOG_USER == 1 * 8
LOG_MAIL == 2 * 8
LOG_DAEMON == 3 * 8
LOG_AUTH == 4 * 8
LOG_SYSLOG == 5 * 8
LOG_LPR == 6 * 8
LOG_NEWS == 7 * 8
LOG_UUCP == 8 * 8
LOG_CRON == 9 * 8
LOG_AUTHPRIV == 10 * 8
LOG_FTP == 11 * 8
LOG_LOCAL0 == 16 * 8
LOG_LOCAL1 == 17 * 8
LOG_LOCAL2 == 18 * 8
LOG_LOCAL3 == 19 * 8
LOG_LOCAL4 == 20 * 8
LOG_LOCAL5 == 21 * 8
LOG_LOCAL6 == 22 * 8
LOG_LOCAL7 == 23 * 8

\* zapcore.Level values.
DebugLevel == 0 - 1
InfoLevel == 0
WarnLevel == 1
ErrorLevel == 2
DPanicLevel == 3
PanicLevel == 4
FatalLevel == 5

(***************************************************************************)
(* Name normalisation.                                                     *)
(***************************************************************************)
\* PRINTUSASCII = %d33-126
rfc5424CompliantASCIIMapper(r) == IF r < 33 \/ r > 126 THEN 95 ELSE r

\* strings.Map(rfc5424CompliantASCIIMapper, s): the mapper is applied to each
\* rune of s in order; every rune it returns is below 128 and so is one byte
\* of the result.  Bytes inside a rune (marked -1) contribute nothing.
toRFC5424CompliantASCIIString(s) ==
    LET IsByte(x) == x >= 0
        mapped == [i \in 1..Len(s) |->
                      IF IsRuneStart(s, i)
                      THEN rfc5424CompliantASCIIMapper(DecodeRune(s, i).r)
                      ELSE 0 - 1]
    IN  SelectSeq(mapped, IsByte)

\* path.Base: trailing slashes are stripped, then everything up to the last
\* slash; "." for an empty path and "/" for one made of slashes only.
pathBase(s) ==
    LET NotSlash(b) == b # 47
        IsSlash(b) == b = 47
    IN  IF Len(s) = 0 THEN <<46>>
        ELSE LET t == SubSeq(s, 1, LastIndexWhere(s, NotSlash))
                 u == SubSeq(t, LastIndexWhere(t, IsSlash) + 1, Len(t))
             IN  IF Len(u) = 0 THEN <<47>> ELSE u

\* NormalizeHostname cutting to maxHostnameLen bytes before sanitizing.
NormalizeHostname_CutFirst(in, osHostname) ==
    LET h1 == IF Len(in) = 0 THEN osHostname ELSE in
    IN  IF Len(h1) = 0 THEN nilValue
        ELSE toRFC5424CompliantASCIIString(
                 IF Len(h1) > maxHostnameLen THEN SubSeq(h1, 1, maxHostnameLen) ELSE h1)

\* NormalizeHostname sanitizing only a hostname the caller gave.
NormalizeHostname_OsUnsanitized(in, osHostname) ==
    IF Len(in) = 0
    THEN (IF Len(osHostname) = 0 THEN nilValue ELSE osHostname)
    ELSE LET hostname == toRFC5424CompliantASCIIString(in)
         IN  IF Len(hostname) > maxHostnameLen
             THEN SubSeq(hostname, 1, maxHostnameLen)
             ELSE hostname

\* Lines 97-109: the Hostname that NewSyslogEncoder stores.
NormalizeHostname(in, osHostname) ==
    LET h1 == IF Len(in) = 0 THEN osHostname ELSE in
    IN  IF Len(h1) = 0 THEN nilValue
        ELSE LET hostname == toRFC5424CompliantASCIIString(h1)
             IN  IF Len(hostname) > maxHostnameLen
                 THEN SubSeq(hostname, 1, maxHostnameLen)
                 ELSE hostname

\* Lines 117-124: the local variable app at the end of the else branch.
NormalizedApp(in) ==
    LET a1 == IF Len(in) > maxAppNameLen THEN pathBase(in) ELSE in
        a2 == IF Len(a1) > maxAppNameLen THEN SubSeq(a1, 1, maxAppNameLen) ELSE a1
    IN  toRFC5424CompliantASCIIString(a2)

\* The caller's line ending left in place.
StoredLineEnding_Kept(in) == in

\* Line 127: cfg.EncoderConfig.LineEnding = "\n", whatever the caller set.
StoredLineEnding(in) == <<10>>

\* Lines 114-125: the App that NewSyslogEncoder stores.  The else branch
\* computes NormalizedApp(in) into a local and never assigns it to cfg.App.
StoredApp(in) == IF Len(in) = 0 THEN nilValue ELSE in

(***************************************************************************)
(* time.Time as far as EncodeEntry uses it: the wall clock reading, the    *)
(* nanoseconds and the zone offset in minutes east of UTC.                 *)
(***************************************************************************)
Time(y, mo, d, h, mi, sec, ns, off) ==
    [year |-> y, month |-> mo, day |-> d, hour |-> h, min |-> mi, sec |-> sec,
     nsec |-> ns, off |-> off]

\* time.Time{}: January 1, year 1, 00:00:00.000000000 UTC.
ZeroTime == Time(1, 1, 1, 0, 0, 0, 0, 0)

\* Time.IsZero: the instant is that of ZeroTime, in whatever zone.
IsZero(t) ==
    /\ t.year = 1 /\ t.month = 1 /\ t.day = 1 /\ t.nsec = 0
    /\ (t.hour * 60 + t.min - t.off) * 60 + t.sec = 0

\* The "Z07:00" element of a layout.
FormatZone(off) ==
    IF off = 0 THEN <<90>>
    ELSE LET a == IF off < 0 THEN 0 - off ELSE off
         IN  <<IF off < 0 THEN 45 ELSE 43>> \o Pad(a \div 60, 2) \o <<58>>
             \o Pad(a % 60, 2)

\* Time.Format(timestampFormat), timestampFormat = "2006-01-02T15:04:05.000000Z07:00"
FormatTimestamp(t) ==
    Pad(t.year, 4) \o <<45>> \o Pad(t.month, 2) \o <<45>> \o Pad(t.day, 2)
    \o <<84>> \o Pad(t.hour, 2) \o <<58>> \o Pad(t.min, 2) \o <<58>>
    \o Pad(t.sec, 2) \o <<46>> \o Pad(t.nsec \div 1000, 6) \o FormatZone(t.off)

(***************************************************************************)
(* zap's JSON encoder, the jsonEncoder every syslogEncoder wraps.  An      *)
(* instance is [buf, openNamespaces]: the bytes of the fields added so far *)
(* and the number of namespaces opened and not yet closed.                 *)
(***************************************************************************)
NewJSONEncoder == [buf |-> <<>>, openNamespaces |-> 0]

\* jsonEncoder.addElementSeparator
addElementSeparator(buf) ==
    IF Len(buf) = 0 THEN buf
    ELSE IF buf[Len(buf)] \in {123, 91, 58, 44, 32} THEN buf
    ELSE buf \o <<44>>

\* jsonEncoder.safeAddString on ASCII input: quotes, backslashes and control
\* characters are escaped.
HexDigit(n) == IF n < 10 THEN 48 + n ELSE 87 + n

EscapeByte(b) ==
    IF b = 92 \/ b = 34 THEN <<92, b>>
    ELSE IF b = 10 THEN <<92, 110>>
    ELSE IF b = 13 THEN <<92, 114>>
    ELSE IF b = 9 THEN <<92, 116>>
    ELSE IF b < 32 THEN <<92, 117, 48, 48, HexDigit(b \div 16), HexDigit(b % 16)>>
    ELSE <<b>>

RECURSIVE safeAddString(_)
safeAddString(s) ==
    IF Len(s) = 0 THEN <<>> ELSE EscapeByte(Head(s)) \o safeAddString(Tail(s))

\* jsonEncoder.addKey
addKey(buf, key) == addElementSeparator(buf) \o <<34>> \o safeAddString(key) \o <<34, 58>>

\* jsonEncoder.AddString
jeAddString(buf, key, val) == addKey(buf, key) \o <<34>> \o safeAddString(val) \o <<34>>

\* jsonEncoder.AddInt64
jeAddInt64(buf, key, val) == addKey(buf, key) \o AppendInt(val)

\* jsonEncoder.OpenNamespace, the buffer part
jeOpenNamespace(buf, key) == addKey(buf, key) \o <<123>>

\* addFields: each extra field of the call is added to the final encoder.
RECURSIVE addFields(_, _)
addFields(buf, fields) ==
    IF Len(fields) = 0 THEN buf
    ELSE addFields(jeAddString(buf, Head(fields).key, Head(fields).val), Tail(fields))

\* The line ending zap appends: the configured one, "\n" when it is empty.
jeLineEnding(lineEnding) == IF Len(lineEnding) > 0 THEN lineEnding ELSE <<10>>

\* jsonEncoder.EncodeEntry with the level, time, name, caller and stacktrace
\* keys unset: the message under messageKey, the accumulated fields, the
\* extra fields, the closing of the open namespaces, and the line ending.
jeEncodeEntry(messageKey, lineEnding, je, ent, fields) ==
    LET b0 == <<123>>
        b1 == IF Len(messageKey) > 0
              THEN jeAddString(b0, messageKey, ent.Message)
              ELSE b0
        b2 == IF Len(je.buf) > 0 THEN addElementSeparator(b1) \o je.buf ELSE b1
        b3 == addFields(b2, fields)
    IN  b3 \o Repeat(<<125>>, je.openNamespaces) \o <<125>> \o jeLineEnding(lineEnding)

(***************************************************************************)
(* syslogEncoder.EncodeEntry, piece by piece.                              *)
(***************************************************************************)
\* Severity with the DPanicLevel case left out of the switch.
Severity_NoDPanic(level) ==
    CASE level = FatalLevel -> LOG_EMERG
      [] level = PanicLevel -> LOG_CRIT
      [] level = ErrorLevel -> LOG_ERR
      [] level = WarnLevel -> LOG_WARNING
      [] level = InfoLevel -> LOG_INFO
      [] level = DebugLevel -> LOG_DEBUG
      [] OTHER -> 0

\* Lines 220-236: the switch on ent.Level; p keeps its zero value when no
\* case matches.
Severity(level) ==
    CASE level = FatalLevel -> LOG_EMERG
      [] level = PanicLevel -> LOG_CRIT
      [] level = DPanicLevel -> LOG_CRIT
      [] level = ErrorLevel -> LOG_ERR
      [] level = WarnLevel -> LOG_WARNING
      [] level = InfoLevel -> LOG_INFO
      [] level = DebugLevel -> LOG_DEBUG
      [] OTHER -> 0

\* Line 237: pr := int64((enc.Facility & facilityMask) | (p & severityMask))
Priority(facility, level) ==
    BitOr(AndMask8(facility, facilityMask), BitAnd(Severity(level), severityMask))

\* Timestamp without the IsZero test.
Timestamp_AlwaysFormatted(t) == FormatTimestamp(t)

\* Lines 245-251: "-" for the zero time, the formatted time otherwise.
Timestamp(t) == IF IsZero(t) THEN nilValue ELSE FormatTimestamp(t)

\* Lines 239-266: everything EncodeEntry appends to msg before it asks the
\* payload encoder.
Header(c, ent) ==
    <<60>> \o AppendInt(Priority(c.Facility, ent.Level)) \o <<62>> \o AppendInt(version)
    \o <<32>> \o Timestamp(ent.Time)
    \o <<32>> \o c.Hostname
    \o <<32>> \o c.App
    \o <<32>> \o AppendInt(c.PID)
    \o <<32, 45, 32, 45>>

\* PayloadPart stripping the line feed under either framing.
PayloadPart_AlwaysStripped(framing, json) ==
    IF Len(json) > 0
    THEN <<32, 239, 187, 191>> \o SubSeq(json, 1, Len(json) - 1)
    ELSE <<>>

\* Lines 270-278: what is appended for the payload json.
PayloadPart(framing, json) ==
    IF Len(json) > 0
    THEN <<32, 239, 187, 191>>
         \o (IF framing = OctetCountingFraming
             THEN SubSeq(json, 1, Len(json) - 1)
             ELSE json)
    ELSE <<>>

\* Frame counting the stripped line feed in MSG-LEN.
Frame_CountsLineFeed(framing, msg) ==
    IF framing # OctetCountingFraming THEN msg
    ELSE AppendInt(Len(msg) + 1) \o <<32>> \o msg

\* Lines 280-290: msg itself, or MSG-LEN SP SYSLOG-MSG under octet counting.
Frame(framing, msg) ==
    IF framing # OctetCountingFraming THEN msg
    ELSE AppendInt(Len(msg)) \o <<32>> \o msg

\* EncodeEntry giving up on a payload error: the header only, unframed.
EncodeEntryResult_AbortOnError(c, ent, jr) ==
    IF jr.err # "nil"
    THEN [buf |-> Header(c, ent), err |-> jr.err]
    ELSE [buf |-> Frame(c.Framing, Header(c, ent) \o PayloadPart(c.Framing, jr.buf)),
          err |-> jr.err]

\* Lines 217-291: the (buffer, error) EncodeEntry returns when the payload
\* encoder answered jr = [buf, err].
EncodeEntryResult(c, ent, jr) ==
    [buf |-> Frame(c.Framing, Header(c, ent) \o PayloadPart(c.Framing, jr.buf)),
     err |-> jr.err]

\* Lines 218-290: the pooled buffers EncodeEntry holds during a call, and for
\* each one how often the call released it (Free) and whether it is the one
\* the call returns.  msg is taken at line 218, json is handed over by
\* je.EncodeEntry at line 269, out is taken at line 285 under octet counting
\* only, where msg is released at line 288 and out returned; json is read at
\* lines 272-277 and not touched again.
PooledBuffers(framing) ==
    IF framing # OctetCountingFraming
    THEN {[name |-> "msg", frees |-> 0, returned |-> TRUE],
          [name |-> "json", frees |-> 0, returned |-> FALSE]}
    ELSE {[name |-> "msg", frees |-> 1, returned |-> FALSE],
          [name |-> "json", frees |-> 0, returned |-> FALSE],
          [name |-> "out", frees |-> 0, returned |-> TRUE]}

\* What enc.je.EncodeEntry can answer.  zap's JSON encoder always answers its
\* payload and a nil error; an arbitrary jsonEncoder may also answer an empty
\* payload, and an error with either.
JEResults(kind, c, je, ent, fields) ==
    LET payload == jeEncodeEntry(c.MessageKey, c.LineEnding, je, ent, fields)
    IN  IF kind = "zap"
        THEN {[buf |-> payload, err |-> "nil"]}
        ELSE {[buf |-> b, err |-> e] : b \in {payload, <<>>}, e \in {"nil", "marshal error"}}

(***************************************************************************)
(* Inputs.                                                                 *)
(***************************************************************************)
Str_localhost == <<108, 111, 99, 97, 108, 104, 111, 115, 116>>
Str_encoder_test == <<101, 110, 99, 111, 100, 101, 114, 95, 116, 101, 115, 116>>
Str_msg == <<109, 115, 103>>
Str_fake == <<102, 97, 107, 101>>
Str_box == <<98, 111, 120>>
Str_usr_bin == <<47, 117, 115, 114, 47, 98, 105, 110, 47>>
Str_eacute == <<195, 169>>

\* testEncoderConfig() of encoder_test.go.
BaseCfg ==
    [Hostname |-> Str_localhost, App |-> Str_encoder_test, PID |-> 9876,
     Facility |-> LOG_LOCAL0, Framing |-> NonTransparentFraming,
     MessageKey |-> Str_msg, LineEnding |-> <<>>]

Hostnames ==
    { <<>>,
      <<97, 32, 98>>,                                  \* "a b"
      <<104>> \o Str_eacute \o <<127>>,                \* "h", e-acute, DEL
      <<255, 120, 169>>,                               \* two bytes that are not UTF-8
      Repeat(<<97>>, maxHostnameLen + 1),
      Repeat(<<97>>, maxHostnameLen - 1) \o Str_eacute \o <<98>>,
      Repeat(Str_eacute, maxHostnameLen) }

Apps ==
    { <<>>,
      <<109, 121, 32, 97, 112, 112>>,                  \* "my app"
      <<97>> \o Str_eacute,
      Str_usr_bin \o Repeat(<<97>>, maxAppNameLen - 8),
      Repeat(<<98>>, maxAppNameLen + 1),
      Str_usr_bin \o Repeat(<<99>>, maxAppNameLen - 1) \o Str_eacute,
      Repeat(<<47>>, maxAppNameLen + 2) }

PIDs == {0, 0 - 5}

Facilities == {LOG_KERN, LOG_LOCAL7, LOG_LOCAL0 + LOG_ERR, 24 * 8, 0 - 8, 256 + 8}

MessageKeys == {<<>>}

LineEndings == {<<13>>}

\* The configurations given to NewSyslogEncoder: testEncoderConfig() with one
\* field varied over its set.
Configs ==
    {BaseCfg}
    \cup {[BaseCfg EXCEPT !.Framing = fr] : fr \in Framings}
    \cup {[BaseCfg EXCEPT !.Hostname = h] : h \in Hostnames}
    \cup {[BaseCfg EXCEPT !.App = a] : a \in Apps}
    \cup {[BaseCfg EXCEPT !.PID = n] : n \in PIDs}
    \cup {[BaseCfg EXCEPT !.Facility = f] : f \in Facilities}
    \cup {[BaseCfg EXCEPT !.MessageKey = k] : k \in MessageKeys}
    \cup {[BaseCfg EXCEPT !.LineEnding = l] : l \in LineEndings}

\* Answers of os.Hostname() and os.Getpid().
OsHostnames == {<<>>, Str_box, <<98, 32, 120>>}

OsPids == {4242}

Levels == (DebugLevel - 1)..(FatalLevel + 1)

\* The zero time, the zero instant read in another zone, and
\* a time off UTC with less than a microsecond of fraction.
Times ==
    { ZeroTime,
      Time(1, 1, 1, 5, 30, 0, 0, 330),
      Time(1999, 12, 31, 23, 59, 59, 999, 0 - 330) }

Field(k, v) == [key |-> k, val |-> v]

\* The field given to AddString: ("str", "foo") of TestSyslogEncoder.
StringFields == {Field(<<115, 116, 114>>, <<102, 111, 111>>)}

\* The extra field given to EncodeEntry: a value with a line feed and a quote.
ExtraFields == {Field(<<115, 49>>, <<10, 34>>)}

NamespaceKeys == {<<110, 115>>}

TestTime == Time(2017, 1, 2, 3, 4, 5, 123456789, 0)

\* The ent and fields arguments of EncodeEntry: testEntry at every level, at
\* every time, and with an extra field.
Entries ==
    {[Level |-> l, Time |-> TestTime, Message |-> Str_fake, fields |-> <<>>] :
        l \in Levels}
    \cup {[Level |-> DebugLevel, Time |-> t, Message |-> Str_fake, fields |-> <<>>] :
             t \in Times}
    \cup {[Level |-> DebugLevel, Time |-> TestTime, Message |-> Str_fake,
           fields |-> <<f>>] : f \in ExtraFields}

(***************************************************************************)
(* The facility lookup (syslog/syslog.go).                                 *)
(***************************************************************************)
\* Lines 59-82: the entries of facilityMap, "KERN" to "LOCAL7".
facilityMap ==
    { [name |-> <<75, 69, 82, 78>>, prio |-> LOG_KERN],
      [name |-> <<85, 83, 69, 82>>, prio |-> LOG_USER],
      [name |-> <<77, 65, 73, 76>>, prio |-> LOG_MAIL],
      [name |-> <<68, 65, 69, 77, 79, 78>>, prio |-> LOG_DAEMON],
      [name |-> <<65, 85, 84, 72>>, prio |-> LOG_AUTH],
      [name |-> <<83, 89, 83, 76, 79, 71>>, prio |-> LOG_SYSLOG],
      [name |-> <<76, 80, 82>>, prio |-> LOG_LPR],
      [name |-> <<78, 69, 87, 83>>, prio |-> LOG_NEWS],
      [name |-> <<85, 85, 67, 80>>, prio |-> LOG_UUCP],
      [name |-> <<67, 82, 79, 78>>, prio |-> LOG_CRON],
      [name |-> <<65, 85, 84, 72, 80, 82, 73, 86>>, prio |-> LOG_AUTHPRIV],
      [name |-> <<70, 84, 80>>, prio |-> LOG_FTP],
      [name |-> <<76, 79, 67, 65, 76, 48>>, prio |-> LOG_LOCAL0],
      [name |-> <<76, 79, 67, 65, 76, 49>>, prio |-> LOG_LOCAL1],
      [name |-> <<76, 79, 67, 65, 76, 50>>, prio |-> LOG_LOCAL2],
      [name |-> <<76, 79, 67, 65, 76, 51>>, prio |-> LOG_LOCAL3],
      [name |-> <<76, 79, 67, 65, 76, 52>>, prio |-> LOG_LOCAL4],
      [name |-> <<76, 79, 67, 65, 76, 53>>, prio |-> LOG_LOCAL5],
      [name |-> <<76, 79, 67, 65, 76, 54>>, prio |-> LOG_LOCAL6],
      [name |-> <<76, 79, 67, 65, 76, 55>>, prio |-> LOG_LOCAL7] }

\* unicode.ToUpper on the runes below U+0180, and on runes that have no
\* upper case of their own (U+212A, U+FFFD): a to z; the micro sign; a-grave
\* to thorn but for the division sign; y-diaeresis; in Latin Extended-A the
\* lower-case letter of each pair, dotless i (U+0131), whose upper case is I,
\* and long s (U+017F), whose upper case is S.
unicodeToUpper(r) ==
    IF r \in 97..122 THEN r - 32
    ELSE IF r = 181 THEN 924
    ELSE IF r \in 224..254 /\ r # 247 THEN r - 32
    ELSE IF r = 255 THEN 376
    ELSE IF r = 305 THEN 73
    ELSE IF r = 383 THEN 83
    ELSE IF r \in 256..311 /\ r % 2 = 1 THEN r - 1
    ELSE IF r \in 313..328 /\ r % 2 = 0 THEN r - 1
    ELSE IF r \in 330..375 /\ r % 2 = 1 THEN r - 1
    ELSE IF r \in 377..382 /\ r % 2 = 0 THEN r - 1
    ELSE r

\* The UTF-8 encoding of rune r.
EncodeRune(r) ==
    IF r < 128 THEN <<r>>
    ELSE IF r < 2048 THEN <<192 + (r \div 64), 128 + (r % 64)>>
    ELSE IF r < 65536
         THEN <<224 + (r \div 4096), 128 + ((r \div 64) % 64), 128 + (r % 64)>>
         ELSE <<240 + (r \div 262144), 128 + ((r \div 4096) % 64),
                128 + ((r \div 64) % 64), 128 + (r % 64)>>

\* strings.Map(unicode.ToUpper, s) from index i on.
RECURSIVE MapToUpper(_, _)
MapToUpper(s, i) ==
    IF i > Len(s) THEN <<>>
    ELSE EncodeRune(unicodeToUpper(DecodeRune(s, i).r))
         \o MapToUpper(s, i + DecodeRune(s, i).w)

\* ToUpper that returns its argument.
ToUpper_Unchanged(s) == s

\* strings.ToUpper(s): byte by byte when s is all ASCII, otherwise rune by
\* rune.
ToUpper(s) ==
    IF \A i \in 1..Len(s) : s[i] < 128
    THEN [i \in 1..Len(s) |-> IF s[i] \in 97..122 THEN s[i] - 32 ELSE s[i]]
    ELSE MapToUpper(s, 1)

\* "invalid syslog facility: "
Str_invalid_facility == <<105, 110, 118, 97, 108, 105, 100, 32, 115, 121, 115, 108, 111, 103, 32, 102, 97, 99, 105, 108, 105, 116, 121, 58, 32>>

\* Lines 86-92.  The error, when there is one, carries the upper-cased name.
FacilityPriority(facility) ==
    LET upper == ToUpper(facility)
        found == {e \in facilityMap : e.name = upper}
    IN  IF found # {}
        THEN [prio |-> (CHOOSE e \in found : TRUE).prio,
              err |-> [isNil |-> TRUE, msg |-> <<>>]]
        ELSE [prio |-> 0,
              err |-> [isNil |-> FALSE, msg |-> Str_invalid_facility \o upper]]

\* name with its ASCII letters put in a letter case: all upper, all lower,
\* first upper, first lower, alternating.
WithCase(name, case) ==
    LET Up(b) == IF b \in 97..122 THEN b - 32 ELSE b
        Low(b) == IF b \in 65..90 THEN b + 32 ELSE b
    IN  [i \in 1..Len(name) |->
            IF case = "upper" THEN Up(name[i])
            ELSE IF case = "lower" THEN Low(name[i])
            ELSE IF case = "title" THEN (IF i = 1 THEN Up(name[i]) ELSE Low(name[i]))
            ELSE IF case = "camel" THEN (IF i = 1 THEN Low(name[i]) ELSE Up(name[i]))
            ELSE (IF i % 2 = 1 THEN Low(name[i]) ELSE Up(name[i]))]

LetterCases == {"upper", "lower", "title", "camel", "alternating"}

\* Names that are in no letter case a key of facilityMap, "<UNKNOWN>" of
\* TestFacilityPriority first, and names with a letter outside ASCII.
OtherNames ==
    { <<60, 85, 78, 75, 78, 79, 87, 78, 62>>,      \* "<UNKNOWN>",
      <<76, 79, 67, 65, 76, 56>>,                  \* "LOCAL8",
      <<108, 111, 99, 97, 108>>,                   \* "local",
      <<107, 101, 114, 110, 101, 108>>,            \* "kernel",
      <<108, 111, 99, 97, 108, 48, 32>>,           \* "local0 ",
      <<32, 109, 97, 105, 108>>,                   \* " mail",
      <<76, 79, 71, 95, 85, 83, 69, 82>>,          \* "LOG_USER",
      <<49, 54>>,                                  \* "16",
      <<109, 97, 196, 177, 108>>,                  \* "mail" with a dotless i,
      <<197, 191, 121, 115, 108, 111, 103>>,       \* "syslog" with a long s,
      <<117, 197, 191, 101, 114>>,                 \* "user" with a long s,
      <<226, 132, 170, 101, 114, 110>>,            \* "Kern" with the Kelvin sign,
      <<99, 114, 195, 182, 110>>,                  \* "cron" with an o-umlaut,
      <<196, 184, 101, 114, 110>>,                 \* "kern" with a kra,
      <<97, 117, 116, 104, 255>>,                  \* "auth" and a byte that is not UTF-8,
      <<>> }

\* The arguments given to FacilityPriority.
FacilityNames ==
    {WithCase(e.name, c) : e \in facilityMap, c \in LetterCases} \cup OtherNames

(***************************************************************************)
(* Values of the syncer model.                                             *)
(***************************************************************************)
nilConn == 0

Err(op, c) == [op |-> op, conn |-> c]

nilError == Err("nil", nilConn)

\* No write was attempted.
NoWrite == [n |-> 0, err |-> Err("none", nilConn)]

\* Before any call on the syncer.
NoCall ==
    [seq |-> 0, op |-> "none", p |-> <<>>, held |-> nilConn, heldState |-> "none",
     n |-> 0, err |-> nilError, first |-> NoWrite, dial |-> "none", retry |-> NoWrite,
     close |-> "none", dials |-> 0, writes |-> 0, closes |-> 0]

(***************************************************************************)
(* The state machine.                                                      *)
(***************************************************************************)
InitCommon ==
    /\ cfg = None
    /\ cfgIn = None
    /\ env = None
    /\ encs = <<>>
    /\ ret = None
    /\ adds = 0
    /\ added = <<>>
    /\ syncer = None
    /\ conns = <<>>
    /\ call = NoCall
    /\ threads = <<>>
    /\ started = 0
    /\ writeFailed = FALSE
    /\ resets = 0
    /\ lookup = None

\* The program: every syslogEncoder wraps zap's JSON encoder.
Init == InitCommon /\ jeKind = "zap"

\* The same encoder code over an arbitrary jsonEncoder implementation.
InitAnyJE == InitCommon /\ jeKind = "any"

\* Lines 96-133.  os.Hostname() is asked only for an empty cfg.Hostname and
\* os.Getpid() only for a zero cfg.PID.
NewSyslogEncoder(c, osHostname, osPid) ==
    /\ cfg = None
    /\ cfgIn' = c
    /\ env' = [osHostname |-> IF Len(c.Hostname) = 0 THEN osHostname ELSE None,
               osPid |-> IF c.PID = 0 THEN osPid ELSE None]
    /\ cfg' = [c EXCEPT !.Hostname = NormalizeHostname(c.Hostname, osHostname),
                        !.PID = IF c.PID = 0 THEN osPid ELSE c.PID,
                        !.App = StoredApp(c.App),
                        !.LineEnding = StoredLineEnding(c.LineEnding)]
    /\ encs' = <<NewJSONEncoder>>
    /\ added' = <<(<<>>)>>
    /\ ret' = None
    /\ UNCHANGED <<adds, jeKind, syncerVars, threadVars, facilityVars>>

\* AddString on a buffer that every instance shares.
AddString_SharedBuffer(i, f) ==
    /\ cfg # None
    /\ i \in 1..Len(encs)
    /\ ret = None
    /\ adds < MaxAdds
    /\ adds' = adds + 1
    /\ encs' = [j \in 1..Len(encs) |->
                  [buf |-> jeAddString(encs[j].buf, f.key, f.val),
                   openNamespaces |-> encs[j].openNamespaces]]
    /\ added' = [added EXCEPT ![i] = Append(@, [op |-> "AddString", key |-> f.key,
                                                val |-> f.val])]
    /\ UNCHANGED <<cfg, cfgIn, env, ret, jeKind, syncerVars, threadVars, facilityVars>>

\* Line 156: enc.je.AddString(key, val)
AddString(i, f) ==
    /\ cfg # None
    /\ i \in 1..Len(encs)
    /\ ret = None
    /\ adds < MaxAdds
    /\ adds' = adds + 1
    /\ encs' = [encs EXCEPT ![i] = [buf |-> jeAddString(@.buf, f.key, f.val),
                                    openNamespaces |-> @.openNamespaces]]
    /\ added' = [added EXCEPT ![i] = Append(@, [op |-> "AddString", key |-> f.key,
                                                val |-> f.val])]
    /\ UNCHANGED <<cfg, cfgIn, env, ret, jeKind, syncerVars, threadVars, facilityVars>>

\* Line 155: enc.je.OpenNamespace(key)
OpenNamespace(i, k) ==
    /\ cfg # None
    /\ i \in 1..Len(encs)
    /\ ret = None
    /\ adds < MaxAdds
    /\ adds' = adds + 1
    /\ encs' = [encs EXCEPT ![i] = [buf |-> jeOpenNamespace(@.buf, k),
                                    openNamespaces |-> @.openNamespaces + 1]]
    /\ added' = [added EXCEPT ![i] = Append(@, [op |-> "OpenNamespace", key |-> k])]
    /\ UNCHANGED <<cfg, cfgIn, env, ret, jeKind, syncerVars, threadVars, facilityVars>>

\* Lines 205-215: the clone shares the config pointer and wraps je.Clone(),
\* which copies the accumulated bytes and the open namespaces.
Clone(i) ==
    /\ cfg # None
    /\ i \in 1..Len(encs)
    /\ ret = None
    /\ Len(encs) < MaxEncoders
    /\ encs' = Append(encs, encs[i])
    /\ added' = Append(added, added[i])
    /\ UNCHANGED <<cfg, cfgIn, env, ret, adds, jeKind, syncerVars, threadVars, facilityVars>>

\* EncodeEntry that stores the normalized app-name in the shared
\* configuration on its way.
EncodeEntry_StoresApp(i, e) ==
    /\ cfg # None
    /\ i \in 1..Len(encs)
    /\ ret = None
    /\ \E jr \in JEResults(jeKind, cfg, encs[i], e, e.fields) :
          ret' = [enc |-> i, ent |-> e, json |-> jr,
                  out |-> EncodeEntryResult(cfg, e, jr),
                  bufs |-> PooledBuffers(cfg.Framing)]
    /\ cfg' = [cfg EXCEPT !.App = NormalizedApp(@)]
    /\ UNCHANGED <<cfgIn, env, encs, adds, jeKind, added,
                   syncerVars, threadVars, facilityVars>>

\* Lines 217-291.  je.EncodeEntry encodes into a clone of je, so the
\* instance's own fields stay as they were.
EncodeEntry(i, e) ==
    /\ cfg # None
    /\ i \in 1..Len(encs)
    /\ ret = None
    /\ \E jr \in JEResults(jeKind, cfg, encs[i], e, e.fields) :
          ret' = [enc |-> i, ent |-> e, json |-> jr,
                  out |-> EncodeEntryResult(cfg, e, jr),
                  bufs |-> PooledBuffers(cfg.Framing)]
    /\ UNCHANGED <<cfg, cfgIn, env, encs, adds, jeKind, added,
                   syncerVars, threadVars, facilityVars>>

\* encoder_test.go line 377: the caller is done with the returned buffer
\* (buf.Free()) and goes on to its next call.
FreeBuffer ==
    /\ ret # None
    /\ ret' = None
    /\ UNCHANGED <<cfg, cfgIn, env, encs, adds, jeKind, added,
                   syncerVars, threadVars, facilityVars>>

Next ==
    \/ \E c \in Configs, h \in OsHostnames, p \in OsPids : NewSyslogEncoder(c, h, p)
    \/ \E i \in 1..MaxEncoders, f \in StringFields : AddString(i, f)
    \/ \E i \in 1..MaxEncoders, k \in NamespaceKeys : OpenNamespace(i, k)
    \/ \E i \in 1..MaxEncoders : Clone(i)
    \/ \E i \in 1..MaxEncoders, e \in Entries : EncodeEntry(i, e)
    \/ FreeBuffer

Spec == Init /\ [][Next]_vars

\* Over an arbitrary jsonEncoder the fields an instance has accumulated are
\* the implementation's own business: all that reaches EncodeEntry is what
\* je.EncodeEntry answers.  So here the encoder is constructed, encodes and
\* has its buffers released.
NextAnyJE ==
    \/ \E c \in Configs, h \in OsHostnames, p \in OsPids : NewSyslogEncoder(c, h, p)
    \/ \E i \in 1..MaxEncoders, e \in Entries : EncodeEntry(i, e)
    \/ FreeBuffer

SpecAnyJE == InitAnyJE /\ [][NextAnyJE]_vars

(***************************************************************************)
(* The reconnecting write syncer (syncer.go), its calls made one after the *)
(* other.  A connection is the index of its entry in conns; an entry is    *)
(* "open", "reset" once the peer has closed it, or "closed" once the       *)
(* syncer has closed it.                                                   *)
(***************************************************************************)
\* The connections the syncer has opened and not closed.
OpenConns == {c \in 1..Len(conns) : conns[c] # "closed"}

\* What the network does to one call: to its write on the connection held,
\* to its dial, to its write on the new connection, to its Close.
Outcomes ==
    [first : {"ok", "fail", "short"}, dial : BOOLEAN,
     retry : {"ok", "fail", "short"}, closeError : BOOLEAN]

\* conn.Write(p) on connection c: all of p and no error, or an error after
\* none or some of it; on a connection the peer has closed, an error.
connWrite(cs, c, p, outcome) ==
    IF cs[c] = "open" /\ outcome = "ok" THEN [n |-> Len(p), err |-> nilError]
    ELSE IF cs[c] = "open" /\ outcome = "short"
         THEN [n |-> Len(p) - 1, err |-> Err("write", c)]
         ELSE [n |-> 0, err |-> Err("write", c)]

\* connect that dials without closing the connection held.
connect_KeepsOld(s, cs, o) ==
    IF o.dial
    THEN [syncer |-> [s EXCEPT !.conn = Len(cs) + 1], conns |-> Append(cs, "open"),
          err |-> nilError, dials |-> 1, closes |-> 0, close |-> "none"]
    ELSE [syncer |-> s, conns |-> cs,
          err |-> Err("dial", nilConn), dials |-> 1, closes |-> 0, close |-> "none"]

\* connect that leaves s.conn as it was when the dial fails.
connect_KeepsConnOnDialError(s, cs, o) ==
    LET held == s.conn # nilConn
        closed == IF held THEN [cs EXCEPT ![s.conn] = "closed"] ELSE cs
        closeAnswer == IF ~held THEN "none" ELSE IF o.closeError THEN "error" ELSE "nil"
    IN  IF o.dial
        THEN [syncer |-> [s EXCEPT !.conn = Len(closed) + 1],
              conns |-> Append(closed, "open"), err |-> nilError, dials |-> 1,
              closes |-> IF held THEN 1 ELSE 0, close |-> closeAnswer]
        ELSE [syncer |-> s, conns |-> closed, err |-> Err("dial", nilConn),
              dials |-> 1, closes |-> IF held THEN 1 ELSE 0, close |-> closeAnswer]

\* Lines 58-73.  The connection held is closed, whatever Close answers, and
\* dropped (59-63); then one net.Dial (66): its error is returned (67-69),
\* or its connection is stored (71).
connect(s, cs, o) ==
    LET held == s.conn # nilConn
        closed == IF held THEN [cs EXCEPT ![s.conn] = "closed"] ELSE cs
        dropped == [s EXCEPT !.conn = nilConn]
        closeAnswer == IF ~held THEN "none" ELSE IF o.closeError THEN "error" ELSE "nil"
    IN  IF o.dial
        THEN [syncer |-> [dropped EXCEPT !.conn = Len(closed) + 1],
              conns |-> Append(closed, "open"), err |-> nilError, dials |-> 1,
              closes |-> IF held THEN 1 ELSE 0, close |-> closeAnswer]
        ELSE [syncer |-> dropped, conns |-> closed, err |-> Err("dial", nilConn),
              dials |-> 1, closes |-> IF held THEN 1 ELSE 0, close |-> closeAnswer]

\* NewConnSyncer that hands out the syncer whether or not the dial failed.
NewConnSyncerResult_AlwaysSyncer(network, raddr, cs, o) ==
    LET c == connect([network |-> network, raddr |-> raddr, conn |-> nilConn], cs, o)
    IN  [ret |-> c.syncer, conns |-> c.conns, n |-> 0, err |-> c.err,
         first |-> NoWrite, dial |-> IF c.err = nilError THEN "ok" ELSE "failed",
         retry |-> NoWrite, close |-> c.close,
         dials |-> c.dials, writes |-> 0, closes |-> c.closes]

\* Lines 43-55: what the call returns (ret, err), the connections after it,
\* and what it did on the way.
NewConnSyncerResult(network, raddr, cs, o) ==
    LET c == connect([network |-> network, raddr |-> raddr, conn |-> nilConn], cs, o)
    IN  [ret |-> IF c.err # nilError THEN None ELSE c.syncer,
         conns |-> c.conns, n |-> 0, err |-> c.err,
         first |-> NoWrite, dial |-> IF c.err = nilError THEN "ok" ELSE "failed",
         retry |-> NoWrite, close |-> c.close,
         dials |-> c.dials, writes |-> 0, closes |-> c.closes]

\* Write that reconnects once more when the retried write fails.
WriteResult_ReconnectsAgain(s, cs, p, o) ==
    LET held == s.conn # nilConn
        first == IF held THEN connWrite(cs, s.conn, p, o.first) ELSE NoWrite
        c == connect(s, cs, o)
        retry == connWrite(c.conns, c.syncer.conn, p, o.retry)
        c2 == connect(c.syncer, c.conns, o)
    IN  IF held /\ first.err = nilError
        THEN [ret |-> s, conns |-> cs, n |-> first.n, err |-> first.err,
              first |-> first, dial |-> "none", retry |-> NoWrite, close |-> "none",
              dials |-> 0, writes |-> 1, closes |-> 0]
        ELSE IF c.err # nilError
        THEN [ret |-> c.syncer, conns |-> c.conns, n |-> 0, err |-> c.err,
              first |-> first, dial |-> "failed", retry |-> NoWrite, close |-> c.close,
              dials |-> c.dials, writes |-> IF held THEN 1 ELSE 0, closes |-> c.closes]
        ELSE IF retry.err = nilError
        THEN [ret |-> c.syncer, conns |-> c.conns, n |-> retry.n, err |-> retry.err,
              first |-> first, dial |-> "ok", retry |-> retry, close |-> c.close,
              dials |-> c.dials, writes |-> (IF held THEN 1 ELSE 0) + 1,
              closes |-> c.closes]
        ELSE [ret |-> c2.syncer, conns |-> c2.conns, n |-> retry.n, err |-> retry.err,
              first |-> first, dial |-> "ok", retry |-> retry, close |-> c.close,
              dials |-> c.dials + c2.dials, writes |-> (IF held THEN 1 ELSE 0) + 1,
              closes |-> c.closes + c2.closes]

\* Write that, when the retried write fails too, returns the error of the
\* first write.
WriteResult_ReturnsFirstError(s, cs, p, o) ==
    LET held == s.conn # nilConn
        first == IF held THEN connWrite(cs, s.conn, p, o.first) ELSE NoWrite
        c == connect(s, cs, o)
        retry == connWrite(c.conns, c.syncer.conn, p, o.retry)
    IN  IF held /\ first.err = nilError
        THEN [ret |-> s, conns |-> cs, n |-> first.n, err |-> first.err,
              first |-> first, dial |-> "none", retry |-> NoWrite, close |-> "none",
              dials |-> 0, writes |-> 1, closes |-> 0]
        ELSE IF c.err # nilError
        THEN [ret |-> c.syncer, conns |-> c.conns, n |-> 0, err |-> c.err,
              first |-> first, dial |-> "failed", retry |-> NoWrite, close |-> c.close,
              dials |-> c.dials, writes |-> IF held THEN 1 ELSE 0, closes |-> c.closes]
        ELSE [ret |-> c.syncer, conns |-> c.conns, n |-> retry.n,
              err |-> IF retry.err # nilError /\ held THEN first.err ELSE retry.err,
              first |-> first, dial |-> "ok", retry |-> retry, close |-> c.close,
              dials |-> c.dials, writes |-> (IF held THEN 1 ELSE 0) + 1,
              closes |-> c.closes]

\* Lines 76-87: what the call returns (n, err), the syncer (ret) and the
\* connections after it, and what it did on the way.  A write on the
\* connection held, when there is one, whose success is returned (77-80);
\* otherwise connect, whose error is returned with count 0 (82-84);
\* otherwise the answer of one write on the new connection (86).
WriteResult(s, cs, p, o) ==
    LET held == s.conn # nilConn
        first == IF held THEN connWrite(cs, s.conn, p, o.first) ELSE NoWrite
        c == connect(s, cs, o)
        retry == connWrite(c.conns, c.syncer.conn, p, o.retry)
    IN  IF held /\ first.err = nilError
        THEN [ret |-> s, conns |-> cs, n |-> first.n, err |-> first.err,
              first |-> first, dial |-> "none", retry |-> NoWrite, close |-> "none",
              dials |-> 0, writes |-> 1, closes |-> 0]
        ELSE IF c.err # nilError
        THEN [ret |-> c.syncer, conns |-> c.conns, n |-> 0, err |-> c.err,
              first |-> first, dial |-> "failed", retry |-> NoWrite, close |-> c.close,
              dials |-> c.dials, writes |-> IF held THEN 1 ELSE 0, closes |-> c.closes]
        ELSE [ret |-> c.syncer, conns |-> c.conns, n |-> retry.n, err |-> retry.err,
              first |-> first, dial |-> "ok", retry |-> retry, close |-> c.close,
              dials |-> c.dials, writes |-> (IF held THEN 1 ELSE 0) + 1,
              closes |-> c.closes]

\* What is kept of a call that has returned: which call, on what, what the
\* syncer held when it began, what it did and what it returned.
CallRecord(seq, op, p, s, cs, r) ==
    [seq |-> seq, op |-> op, p |-> p,
     held |-> IF s = None THEN nilConn ELSE s.conn,
     heldState |-> IF s = None \/ s.conn = nilConn THEN "none" ELSE cs[s.conn],
     n |-> r.n, err |-> r.err, first |-> r.first, dial |-> r.dial, retry |-> r.retry,
     close |-> r.close, dials |-> r.dials, writes |-> r.writes, closes |-> r.closes]

\* The networks of the syncer tests, and their server's address.
Networks == {"tcp", "udp"}

Raddrs == {"127.0.0.1:0"}

\* The message of the syncer tests: "<34>1 2003-10-11T22:14:15.003Z
\* mymachine.example.com su - ID47 - ", a byte-order mark, "'su root' failed
\* for lonvick on /dev/pts/8".
testMessage ==
    <<60, 51, 52, 62, 49, 32, 50, 48, 48, 51, 45, 49, 48, 45, 49, 49,
      84, 50, 50, 58, 49, 52, 58, 49, 53, 46, 48, 48, 51, 90, 32, 109,
      121, 109, 97, 99, 104, 105, 110, 101, 46, 101, 120, 97, 109, 112, 108, 101,
      46, 99, 111, 109, 32, 115, 117, 32, 45, 32, 73, 68, 52, 55, 32, 45,
      32, 239, 187, 191, 39, 115, 117, 32, 114, 111, 111, 116, 39, 32, 102, 97,
      105, 108, 101, 100, 32, 102, 111, 114, 32, 108, 111, 110, 118, 105, 99, 107,
      32, 111, 110, 32, 47, 100, 101, 118, 47, 112, 116, 115, 47, 56>>

\* What is written: that message and, of another length, "fake".
Payloads == {testMessage, Str_fake}

InitSyncer == InitCommon /\ jeKind = "zap"

\* Lines 43-55.
NewConnSyncer(network, raddr, o) ==
    /\ syncer = None
    /\ call.seq < MaxCalls
    /\ LET r == NewConnSyncerResult(network, raddr, conns, o)
       IN  /\ syncer' = r.ret
           /\ conns' = r.conns
           /\ call' = CallRecord(call.seq + 1, "NewConnSyncer", <<>>, syncer, conns, r)
    /\ UNCHANGED <<encoderVars, threadVars, facilityVars>>

\* Lines 76-87.
Write(p, o) ==
    /\ syncer # None
    /\ call.seq < MaxCalls
    /\ LET r == WriteResult(syncer, conns, p, o)
       IN  /\ syncer' = r.ret
           /\ conns' = r.conns
           /\ call' = CallRecord(call.seq + 1, "Write", p, syncer, conns, r)
    /\ UNCHANGED <<encoderVars, threadVars, facilityVars>>

\* Lines 89-91.
Sync ==
    /\ syncer # None
    /\ call.seq < MaxCalls
    /\ call' = [NoCall EXCEPT !.seq = call.seq + 1, !.op = "Sync",
                              !.held = syncer.conn,
                              !.heldState = IF syncer.conn = nilConn THEN "none"
                                            ELSE conns[syncer.conn]]
    /\ UNCHANGED <<syncer, conns, encoderVars, threadVars, facilityVars>>

\* The server of the syncer tests closes a connection it has accepted
\* (runStreamSyslog when crashy, every eighth read).
CrashConnection ==
    /\ syncer # None
    /\ syncer.conn # nilConn
    /\ conns[syncer.conn] = "open"
    /\ conns' = [conns EXCEPT ![syncer.conn] = "reset"]
    /\ UNCHANGED <<syncer, call, encoderVars, threadVars, facilityVars>>

NextSyncer ==
    \/ \E nw \in Networks, ra \in Raddrs, o \in Outcomes : NewConnSyncer(nw, ra, o)
    \/ \E p \in Payloads, o \in Outcomes : Write(p, o)
    \/ Sync
    \/ CrashConnection

SpecSyncer == InitSyncer /\ [][NextSyncer]_vars

(***************************************************************************)
(* Goroutines calling Write on one shared syncer with no lock, as          *)
(* TestConcurrentWrite does, against an endpoint that accepts every dial.  *)
(* A step is one access to s.conn or one call on a connection.  The        *)
(* accesses to s.conn are not synchronized: where a goroutine reads s.conn *)
(* again without having written to it in between, it sees either the value *)
(* it read before (kept in c) or the value s.conn has now.                 *)
(***************************************************************************)
\* A goroutine: where it is in Write (the line of syncer.go it is about to
\* execute), the connection it read or dialled last, and what its last Write
\* call returned.
Idle == [pc |-> "idle", c |-> nilConn, err |-> "none"]

Crashed == \E t \in DOMAIN threads : threads[t].pc = "panic"

Running(t, pc) == ~Crashed /\ t \in DOMAIN threads /\ threads[t].pc = pc

\* The values a read of s.conn can give goroutine t.
ReadsOfConn(t) == {threads[t].c, syncer.conn}

\* The syncer of TestConcurrentWrite (lines 181-187) and its goroutines,
\* none of them started.
InitThreads ==
    /\ cfg = None
    /\ cfgIn = None
    /\ env = None
    /\ encs = <<>>
    /\ ret = None
    /\ adds = 0
    /\ added = <<>>
    /\ jeKind = "zap"
    /\ \E nw \in Networks, ra \in Raddrs :
          syncer = [network |-> nw, raddr |-> ra, conn |-> 1]
    /\ conns = <<"open">>
    /\ call = NoCall
    /\ threads = [t \in 1..MaxThreads |-> Idle]
    /\ started = 0
    /\ writeFailed = FALSE
    /\ resets = 0
    /\ lookup = None

\* internal/safe.go line 193: the goroutine calls Write.
BeginWrite(t) ==
    /\ Running(t, "idle")
    /\ started < MaxStarted
    /\ started' = started + 1
    /\ threads' = [threads EXCEPT ![t] = [pc |-> "77", c |-> nilConn, err |-> "none"]]
    /\ UNCHANGED <<syncer, conns, call, writeFailed, resets, encoderVars, facilityVars>>

\* TestConn that sends the goroutine to connect whatever s.conn is.
TestConn_AlwaysReconnects(t) ==
    /\ Running(t, "77")
    /\ threads' = [threads EXCEPT ![t].c = syncer.conn, ![t].pc = "59"]
    /\ UNCHANGED <<syncer, conns, call, started, writeFailed, resets, encoderVars, facilityVars>>

\* Line 77: if s.conn != nil
TestConn(t) ==
    /\ Running(t, "77")
    /\ threads' = [threads EXCEPT ![t].c = syncer.conn,
                                  ![t].pc = IF syncer.conn # nilConn THEN "78" ELSE "59"]
    /\ UNCHANGED <<syncer, conns, call, started, writeFailed, resets, encoderVars, facilityVars>>

\* Lines 78-80: s.conn.Write(p).  On a nil connection the call panics; on
\* an open one it succeeds; on one that the server or the syncer has closed
\* it fails.  Success is returned, a failure leads to connect.
FirstWrite(t) ==
    /\ Running(t, "78")
    /\ \E c \in ReadsOfConn(t) :
          IF c = nilConn
          THEN /\ threads' = [threads EXCEPT ![t].pc = "panic", ![t].err = "write on nil"]
               /\ UNCHANGED writeFailed
          ELSE IF conns[c] = "open"
          THEN /\ threads' = [threads EXCEPT ![t].pc = "idle", ![t].err = "nil"]
               /\ UNCHANGED writeFailed
          ELSE /\ threads' = [threads EXCEPT ![t].pc = "59"]
               /\ writeFailed' = TRUE
    /\ UNCHANGED <<syncer, conns, call, started, resets, encoderVars, facilityVars>>

\* Line 59: if s.conn != nil
ConnectTest(t) ==
    /\ Running(t, "59")
    /\ threads' = [threads EXCEPT ![t].c = syncer.conn,
                                  ![t].pc = IF syncer.conn # nilConn THEN "61" ELSE "66"]
    /\ UNCHANGED <<syncer, conns, call, started, writeFailed, resets, encoderVars, facilityVars>>

\* Line 61: s.conn.Close(), its answer ignored.  On a nil connection the
\* call panics.
ConnectClose(t) ==
    /\ Running(t, "61")
    /\ \E c \in ReadsOfConn(t) :
          IF c = nilConn
          THEN /\ threads' = [threads EXCEPT ![t].pc = "panic", ![t].err = "close on nil"]
               /\ UNCHANGED conns
          ELSE /\ threads' = [threads EXCEPT ![t].pc = "62"]
               /\ conns' = [conns EXCEPT ![c] = "closed"]
    /\ UNCHANGED <<syncer, call, started, writeFailed, resets, encoderVars, facilityVars>>

\* Line 62: s.conn = nil
ConnectDrop(t) ==
    /\ Running(t, "62")
    /\ syncer' = [syncer EXCEPT !.conn = nilConn]
    /\ threads' = [threads EXCEPT ![t].c = nilConn, ![t].pc = "66"]
    /\ UNCHANGED <<conns, call, started, writeFailed, resets, encoderVars, facilityVars>>

\* Line 66: c, err := net.Dial(s.network, s.raddr), which the endpoint
\* accepts.
ConnectDial(t) ==
    /\ Running(t, "66")
    /\ conns' = Append(conns, "open")
    /\ threads' = [threads EXCEPT ![t].c = Len(conns) + 1, ![t].pc = "71"]
    /\ UNCHANGED <<syncer, call, started, writeFailed, resets, encoderVars, facilityVars>>

\* Line 71: s.conn = c
ConnectStore(t) ==
    /\ Running(t, "71")
    /\ syncer' = [syncer EXCEPT !.conn = threads[t].c]
    /\ threads' = [threads EXCEPT ![t].pc = "86"]
    /\ UNCHANGED <<conns, call, started, writeFailed, resets, encoderVars, facilityVars>>

\* Line 86: return s.conn.Write(p)
RetryWrite(t) ==
    /\ Running(t, "86")
    /\ \E c \in ReadsOfConn(t) :
          IF c = nilConn
          THEN /\ threads' = [threads EXCEPT ![t].pc = "panic", ![t].err = "write on nil"]
               /\ UNCHANGED writeFailed
          ELSE IF conns[c] = "open"
          THEN /\ threads' = [threads EXCEPT ![t].pc = "idle", ![t].err = "nil"]
               /\ UNCHANGED writeFailed
          ELSE /\ threads' = [threads EXCEPT ![t].pc = "idle", ![t].err = "write error"]
               /\ writeFailed' = TRUE
    /\ UNCHANGED <<syncer, conns, call, started, resets, encoderVars, facilityVars>>

\* The server closes a connection it has accepted (runStreamSyslog when
\* crashy), or its datagram socket (runPktSyslog): writes on that connection
\* fail from then on.
ServerClosesConn(c) ==
    /\ ~Crashed
    /\ resets < MaxResets
    /\ c \in 1..Len(conns)
    /\ conns[c] = "open"
    /\ conns' = [conns EXCEPT ![c] = "reset"]
    /\ resets' = resets + 1
    /\ UNCHANGED <<syncer, call, threads, started, writeFailed, encoderVars, facilityVars>>

NextThreads ==
    \/ \E c \in 1..(MaxStarted + 1) : ServerClosesConn(c)
    \/ \E t \in 1..MaxThreads :
          \/ BeginWrite(t)
          \/ TestConn(t)
          \/ FirstWrite(t)
          \/ ConnectTest(t)
          \/ ConnectClose(t)
          \/ ConnectDrop(t)
          \/ ConnectDial(t)
          \/ ConnectStore(t)
          \/ RetryWrite(t)

SpecThreads == InitThreads /\ [][NextThreads]_vars

(***************************************************************************)
(* Calls of FacilityPriority.                                              *)
(***************************************************************************)
InitFacility == InitCommon /\ jeKind = "zap"

\* A call of FacilityPriority and what it returned.
LookupFacility(name) ==
    /\ lookup' = [name |-> name, ret |-> FacilityPriority(name)]
    /\ UNCHANGED <<encoderVars, syncerVars, threadVars>>

NextFacility == \E name \in FacilityNames : LookupFacility(name)

SpecFacility == InitFacility /\ [][NextFacility]_vars

(***************************************************************************)
(* Reading a returned buffer back, for the properties below.               *)
(***************************************************************************)
Returned == ret # None

\* The SYSLOG-MSG inside a returned buffer: the buffer itself, or under octet
\* counting what follows the first space.
MessageOf(buf, framing) ==
    IF framing = OctetCountingFraming
    THEN SubSeq(buf, IndexFrom(buf, 32, 1) + 1, Len(buf))
    ELSE buf

RetMsg == MessageOf(ret.out.buf, cfg.Framing)

\* The bytes between '<' and '>' at the start of a message.
PriField(msg) == SubSeq(msg, 2, IndexFrom(msg, 62, 1) - 1)

\* The TIMESTAMP field: from after "<PRI>1 " up to the next space.
TsField(msg) ==
    LET gt == IndexFrom(msg, 62, 1)
    IN  SubSeq(msg, gt + 3, IndexFrom(msg, 32, gt + 3) - 1)

\* ts is the RFC3339 rendering of t with six fractional digits.
IsRFC3339Micro(ts, t) ==
    LET a == IF t.off < 0 THEN 0 - t.off ELSE t.off
        Num(i, j) == Atoi(SubSeq(ts, i, j))
    IN  /\ Len(ts) \in {27, 32}
        /\ IsDigits(SubSeq(ts, 1, 4)) /\ Num(1, 4) = t.year
        /\ ts[5] = 45
        /\ IsDigits(SubSeq(ts, 6, 7)) /\ Num(6, 7) = t.month
        /\ ts[8] = 45
        /\ IsDigits(SubSeq(ts, 9, 10)) /\ Num(9, 10) = t.day
        /\ ts[11] = 84
        /\ IsDigits(SubSeq(ts, 12, 13)) /\ Num(12, 13) = t.hour
        /\ ts[14] = 58
        /\ IsDigits(SubSeq(ts, 15, 16)) /\ Num(15, 16) = t.min
        /\ ts[17] = 58
        /\ IsDigits(SubSeq(ts, 18, 19)) /\ Num(18, 19) = t.sec
        /\ ts[20] = 46
        /\ IsDigits(SubSeq(ts, 21, 26)) /\ Num(21, 26) = t.nsec \div 1000
        /\ IF Len(ts) = 27
           THEN ts[27] = 90 /\ t.off = 0
           ELSE /\ t.off # 0
                /\ ts[27] = (IF t.off < 0 THEN 45 ELSE 43)
                /\ IsDigits(SubSeq(ts, 28, 29)) /\ Num(28, 29) = a \div 60
                /\ ts[30] = 58
                /\ IsDigits(SubSeq(ts, 31, 32)) /\ Num(31, 32) = a % 60

\* msg begins "<PRI>1 TS HOSTNAME APP-NAME PROCID - -" for the configuration c
\* and the event ent, with nothing else in between.
HeaderOK(msg, c, ent) ==
    LET pri == PriField(msg)
        ts == TsField(msg)
        head == <<60>> \o pri \o <<62, 49, 32>> \o ts \o <<32>> \o c.Hostname
                \o <<32>> \o c.App \o <<32>> \o AppendInt(c.PID) \o <<32, 45, 32, 45>>
    IN  /\ IsDigits(pri)
        /\ IsPrefix(head, msg)
        /\ IF IsZero(ent.Time) THEN ts = <<45>> ELSE IsRFC3339Micro(ts, ent.Time)

\* The length of the header HeaderOK describes.
HeaderLen(msg, c) ==
    Len(PriField(msg)) + Len(TsField(msg)) + Len(c.Hostname) + Len(c.App)
    + Len(AppendInt(c.PID)) + Len(<<60, 62, 49, 32, 32, 32, 32, 32, 45, 32, 45>>)

AllPrintable(s) == \A i \in 1..Len(s) : s[i] \in 33..126

(***************************************************************************)
(* C1.  The priority written between '<' and '>' is                        *)
(* (facility & 0xF8) | (severityOf(level) & 0x07), with severityOf         *)
(* fatal->0, panic->2, dpanic->2, error->3, warn->4, info->6, debug->7 and *)
(* 0 for any other level; EncodeEntry returns a buffer for such a level    *)
(* as for any other.                                                       *)
(***************************************************************************)
severityOf(level) ==
    IF level = 5 THEN 0
    ELSE IF level \in {3, 4} THEN 2
    ELSE IF level = 2 THEN 3
    ELSE IF level = 1 THEN 4
    ELSE IF level = 0 THEN 6
    ELSE IF level = 0 - 1 THEN 7
    ELSE 0

\* (f & 0xF8) | sev for 0 <= sev <= 7: the low eight bits of f with the low
\* three replaced by sev.
ExpectedPriority(f, level) == ((f % 256) \div 8) * 8 + severityOf(level)

C1_PriorityFormula ==
    Returned =>
        /\ IsDigits(PriField(RetMsg))
        /\ Atoi(PriField(RetMsg)) = ExpectedPriority(cfg.Facility, ret.ent.Level)

C1_Witness ==
    /\ Returned
    /\ ret.ent.Level = DebugLevel
    /\ cfg.Facility = LOG_LOCAL0
    /\ PriField(RetMsg) = <<49, 51, 53>>

\* An unrecognised level is encoded with severity 0.
C1_WitnessUnknownLevel ==
    /\ Returned
    /\ ret.ent.Level = FatalLevel + 1
    /\ cfg.Facility = LOG_LOCAL0
    /\ PriField(RetMsg) = <<49, 50, 56>>

(***************************************************************************)
(* C2.  The priority written by EncodeEntry is in 0..191 for every level   *)
(* and every Facility a SyslogEncoderConfig can hold.                      *)
(***************************************************************************)
C2_PriorityInRange ==
    Returned => Atoi(PriField(RetMsg)) \in 0..191

(***************************************************************************)
(* C3.  Under non-transparent framing the buffer begins with exactly       *)
(* "<PRI>1 TIMESTAMP HOSTNAME APP-NAME PROCID - -", fields from the config *)
(* separated by single spaces, TIMESTAMP being "-" exactly for the zero    *)
(* time and otherwise RFC3339 with six fractional digits.                  *)
(***************************************************************************)
C3_HeaderLayout ==
    Returned /\ cfg.Framing = NonTransparentFraming =>
        HeaderOK(ret.out.buf, cfg, ret.ent)

\* "<135>1 2017-01-02T03:04:05.123456Z localhost encoder_test 9876 - -"
C3_Witness ==
    /\ Returned
    /\ cfg.Framing = NonTransparentFraming
    /\ IsPrefix(<<60, 49, 51, 53, 62, 49, 32,
                  50, 48, 49, 55, 45, 48, 49, 45, 48, 50, 84,
                  48, 51, 58, 48, 52, 58, 48, 53, 46, 49, 50, 51, 52, 53, 54, 90, 32>>
                \o Str_localhost \o <<32>> \o Str_encoder_test
                \o <<32, 57, 56, 55, 54, 32, 45, 32, 45>>,
                ret.out.buf)

\* The zero time is written as "-".
C3_WitnessZeroTime ==
    /\ Returned
    /\ cfg.Framing = NonTransparentFraming
    /\ IsZero(ret.ent.Time)
    /\ IsPrefix(<<60, 49, 51, 53, 62, 49, 32, 45, 32>> \o Str_localhost, ret.out.buf)

(***************************************************************************)
(* C4.  Under non-transparent framing, what follows the "- -" placeholder  *)
(* is determined by the payload alone: a space, EF BB BF and the payload   *)
(* bytes verbatim when the payload is not empty, nothing when it is.       *)
(***************************************************************************)
C4_PayloadAppended ==
    Returned /\ cfg.Framing = NonTransparentFraming =>
        LET buf == ret.out.buf
            n == HeaderLen(buf, cfg)
            after == SubSeq(buf, n + 1, Len(buf))
        IN  /\ SubSeq(buf, n - 3, n) = <<32, 45, 32, 45>>
            /\ after = IF Len(ret.json.buf) > 0
                       THEN <<32, 239, 187, 191>> \o ret.json.buf
                       ELSE <<>>

C4_Witness ==
    /\ Returned
    /\ cfg.Framing = NonTransparentFraming
    /\ Len(ret.json.buf) > 0
    /\ ret.json.buf[Len(ret.json.buf)] = 10
    /\ IsSuffix(<<32, 45, 32, 45, 32, 239, 187, 191>> \o ret.json.buf, ret.out.buf)

\* With an empty payload the buffer ends with "- -".
C4_WitnessEmptyPayload ==
    /\ Returned
    /\ cfg.Framing = NonTransparentFraming
    /\ Len(ret.json.buf) = 0
    /\ IsSuffix(<<32, 45, 32, 45>>, ret.out.buf)

(***************************************************************************)
(* C5.  When the payload encoder returns an error, EncodeEntry returns     *)
(* that same error together with the fully built buffer: header, payload   *)
(* part if any, framing applied, under both framing modes.                 *)
(***************************************************************************)
\* buf is a complete frame around the message for payload: header, payload
\* part, and under octet counting the MSG-LEN prefix without the payload's
\* line terminator.
FullyBuilt(buf, c, ent, payload) ==
    LET msg == MessageOf(buf, c.Framing)
        n == HeaderLen(msg, c)
        carried == IF c.Framing = OctetCountingFraming /\ Len(payload) > 0
                   THEN SubSeq(payload, 1, Len(payload) - 1)
                   ELSE payload
        sp == IndexFrom(buf, 32, 1)
    IN  /\ HeaderOK(msg, c, ent)
        /\ SubSeq(msg, n + 1, Len(msg)) =
              IF Len(payload) > 0 THEN <<32, 239, 187, 191>> \o carried ELSE <<>>
        /\ c.Framing = OctetCountingFraming =>
              /\ IsDigits(SubSeq(buf, 1, sp - 1))
              /\ Atoi(SubSeq(buf, 1, sp - 1)) = Len(msg)

C5_ErrorKeepsEnvelope ==
    Returned /\ ret.json.err # "nil" =>
        /\ ret.out.err = ret.json.err
        /\ FullyBuilt(ret.out.buf, cfg, ret.ent, ret.json.buf)

C5_Witness ==
    /\ Returned
    /\ ret.json.err = "marshal error"
    /\ ret.out.err = "marshal error"
    /\ cfg.Framing = OctetCountingFraming
    /\ Len(ret.json.buf) > 0
    /\ IsSuffix(<<32, 45, 32, 45, 32, 239, 187, 191>>
                \o SubSeq(ret.json.buf, 1, Len(ret.json.buf) - 1), ret.out.buf)

(***************************************************************************)
(* C6.  The app-name stored by NewSyslogEncoder and emitted by EncodeEntry *)
(* is the normalized one: final path segment when longer than 48, then at  *)
(* most 48 characters, then sanitized; never longer than 48 and never with *)
(* a byte outside 33..126.                                                 *)
(***************************************************************************)
C6_AppNormalized ==
    cfg # None /\ Len(cfgIn.App) > 0 =>
        /\ cfg.App = NormalizedApp(cfgIn.App)
        /\ Len(cfg.App) <= maxAppNameLen
        /\ AllPrintable(cfg.App)

(***************************************************************************)
(* C7.  For a non-empty hostname the stored hostname is the input with     *)
(* every rune below 33 or above 126 replaced by one '_' (one per rune),    *)
(* the other characters unchanged, then cut to 255 characters; so the      *)
(* emitted HOSTNAME has only bytes in 33..126 and at most 255 of them.     *)
(***************************************************************************)
\* The indices of s at which a rune starts, in order.
RuneStarts(s) ==
    LET Starts(i) == IsRuneStart(s, i)
    IN  SelectSeq([i \in 1..Len(s) |-> i], Starts)

\* The state NewSyslogEncoder leaves behind.
JustConstructed == cfg # None /\ ret = None /\ encs = <<NewJSONEncoder>>

C7_HostnameSanitized ==
    /\ JustConstructed /\ Len(cfgIn.Hostname) > 0 =>
          LET starts == RuneStarts(cfgIn.Hostname)
          IN  /\ Len(cfg.Hostname) =
                    (IF Len(starts) > 255 THEN 255 ELSE Len(starts))
              /\ \A k \in 1..Len(cfg.Hostname) :
                    LET r == DecodeRune(cfgIn.Hostname, starts[k]).r
                    IN  cfg.Hostname[k] = IF r < 33 \/ r > 126 THEN 95 ELSE r
    /\ Returned /\ Len(cfgIn.Hostname) > 0 =>
          /\ HeaderOK(RetMsg, cfg, ret.ent)
          /\ AllPrintable(cfg.Hostname)
          /\ Len(cfg.Hostname) <= 255

\* 254 'a', an e-acute and a 'b' are stored as 254 'a' and one '_'.
C7_Witness ==
    /\ Returned
    /\ cfgIn.Hostname = Repeat(<<97>>, 254) \o <<195, 169, 98>>
    /\ cfg.Hostname = Repeat(<<97>>, 254) \o <<95>>
    /\ HeaderOK(RetMsg, cfg, ret.ent)

(***************************************************************************)
(* C8.  An empty hostname is stored and emitted as "-" and an empty        *)
(* app-name is stored and emitted as "-", whatever the process             *)
(* environment.                                                            *)
(***************************************************************************)
C8_EmptyNamesBecomeNil ==
    cfg # None =>
        /\ Len(cfgIn.Hostname) = 0 => cfg.Hostname = <<45>>
        /\ Len(cfgIn.App) = 0 => cfg.App = <<45>>

\* As amended: an empty app-name is stored and emitted as "-"; for an empty
\* hostname NewSyslogEncoder asks os.Hostname() and stores "-" only when that
\* is empty as well, otherwise the answer sanitized and cut to 255 characters.
C8_Amended ==
    /\ cfg # None =>
          /\ Len(cfgIn.App) = 0 => cfg.App = <<45>>
          /\ Len(cfgIn.Hostname) = 0 =>
                /\ Len(env.osHostname) = 0 => cfg.Hostname = <<45>>
                /\ Len(env.osHostname) > 0 =>
                      /\ Len(cfg.Hostname) =
                            (IF Len(RuneStarts(env.osHostname)) > 255 THEN 255
                             ELSE Len(RuneStarts(env.osHostname)))
                      /\ \A k \in 1..Len(cfg.Hostname) :
                            LET r == DecodeRune(env.osHostname,
                                                RuneStarts(env.osHostname)[k]).r
                            IN  cfg.Hostname[k] = IF r < 33 \/ r > 126 THEN 95 ELSE r
    /\ Returned /\ (Len(cfgIn.App) = 0 \/ Len(cfgIn.Hostname) = 0) =>
          HeaderOK(RetMsg, cfg, ret.ent)

\* os.Hostname() answered "b x": the message carries "b_x".
C8_Witness ==
    /\ Returned
    /\ Len(cfgIn.Hostname) = 0
    /\ env.osHostname = <<98, 32, 120>>
    /\ cfg.Hostname = <<98, 95, 120>>
    /\ HeaderOK(RetMsg, cfg, ret.ent)

\* Both names empty in turn: "-" for the app-name, and "-" for the hostname
\* when os.Hostname() is empty too.
C8_WitnessNilHostname ==
    /\ Returned
    /\ Len(cfgIn.Hostname) = 0
    /\ Len(env.osHostname) = 0
    /\ cfg.Hostname = <<45>>

C8_WitnessNilApp ==
    /\ Returned
    /\ Len(cfgIn.App) = 0
    /\ cfg.App = <<45>>

(***************************************************************************)
(* C9.  For the same config apart from the framing mode, the same fields   *)
(* and the same event: if the non-transparent output has length L and ends *)
(* in a newline, the octet-counting output is the decimal of L-1, a space, *)
(* and the first L-1 bytes of it; the prefix is the number of bytes after  *)
(* the space and the frame has no trailing newline.                        *)
(***************************************************************************)
\* What the same call returns under non-transparent framing.
NonTransparentOutput ==
    EncodeEntryResult([cfg EXCEPT !.Framing = NonTransparentFraming],
                      ret.ent, ret.json).buf

C9_OctetCountingOfNonTransparent ==
    Returned /\ cfg.Framing = OctetCountingFraming =>
        LET nt == NonTransparentOutput
            L == Len(nt)
            buf == ret.out.buf
            sp == IndexFrom(buf, 32, 1)
            prefix == SubSeq(buf, 1, sp - 1)
            rest == SubSeq(buf, sp + 1, Len(buf))
        IN  nt[L] = 10 =>
              /\ IsDigits(prefix)
              /\ prefix[1] # 48
              /\ Atoi(prefix) = L - 1
              /\ rest = SubSeq(nt, 1, L - 1)
              /\ Atoi(prefix) = Len(rest)
              /\ rest[Len(rest)] # 10

C9_Witness ==
    /\ Returned
    /\ cfg.Framing = OctetCountingFraming
    /\ NonTransparentOutput[Len(NonTransparentOutput)] = 10
    /\ ret.out.buf[Len(ret.out.buf)] = 125
    /\ Atoi(SubSeq(ret.out.buf, 1, IndexFrom(ret.out.buf, 32, 1) - 1))
          = Len(NonTransparentOutput) - 1

(***************************************************************************)
(* C10.  Every buffer EncodeEntry returns under non-transparent framing    *)
(* ends with a newline byte.                                               *)
(***************************************************************************)
C10_EndsWithNewline ==
    Returned /\ cfg.Framing = NonTransparentFraming =>
        ret.out.buf[Len(ret.out.buf)] = 10

\* The caller asked for another line ending and fields were accumulated.
C10_Witness ==
    /\ Returned
    /\ cfg.Framing = NonTransparentFraming
    /\ cfgIn.LineEnding = <<13>>
    /\ Len(encs[ret.enc].buf) > 0
    /\ ret.out.buf[Len(ret.out.buf)] = 10

(***************************************************************************)
(* C11.  A field added to one instance appears in the output of that       *)
(* instance and of the clones taken from it afterwards, and nowhere else:  *)
(* not in the encoder it was cloned from, not in a sibling clone, not in   *)
(* a clone taken before the field was added; a clone starts with exactly   *)
(* the fields its source had when it was cloned.  So the payload of every  *)
(* instance is the payload of exactly the field-adding calls it was given  *)
(* or inherited, in their order.                                           *)
(***************************************************************************)
\* sub occurs in s.
Contains(s, sub) ==
    \E i \in 1..(Len(s) - Len(sub) + 1) : SubSeq(s, i, i + Len(sub) - 1) = sub

\* The payload has a member named key.
Shows(payload, key) == Contains(payload, <<34>> \o key \o <<34, 58>>)

ApplyCall(je, c) ==
    IF c.op = "AddString"
    THEN [buf |-> jeAddString(je.buf, c.key, c.val),
          openNamespaces |-> je.openNamespaces]
    ELSE [buf |-> jeOpenNamespace(je.buf, c.key),
          openNamespaces |-> je.openNamespaces + 1]

\* A fresh JSON encoder given the field-adding calls cs in order.
RECURSIVE Replay(_)
Replay(cs) ==
    IF Len(cs) = 0 THEN NewJSONEncoder
    ELSE ApplyCall(Replay(SubSeq(cs, 1, Len(cs) - 1)), cs[Len(cs)])

FieldKeys == {f.key : f \in StringFields} \cup NamespaceKeys

C11_FieldsStayWithTheirInstance ==
    Returned /\ ret.json.err = "nil" /\ Len(ret.json.buf) > 0 =>
        LET mine == added[ret.enc]
        IN  /\ \A k \in FieldKeys :
                  Shows(ret.json.buf, k) <=> \E n \in 1..Len(mine) : mine[n].key = k
            /\ ret.json.buf = jeEncodeEntry(cfg.MessageKey, cfg.LineEnding,
                                            Replay(mine), ret.ent, ret.ent.fields)

\* A field was added to a clone, or to the source after the clone was taken:
\* the other instance's output does not show it.
C11_Witness ==
    /\ Returned
    /\ Len(added[ret.enc]) = 0
    /\ \E j \in 1..Len(encs) : j # ret.enc /\ Len(added[j]) > 0
    /\ \A k \in FieldKeys : ~Shows(ret.json.buf, k)

\* A sibling clone: the field went to the second instance after both clones
\* were taken from the first; the third instance's output does not show it.
C11_WitnessSibling ==
    /\ Returned
    /\ Len(encs) = 3
    /\ ret.enc = 3
    /\ Len(added[1]) = 0 /\ Len(added[2]) = 1 /\ Len(added[3]) = 0
    /\ \A k \in FieldKeys : ~Shows(ret.json.buf, k)

\* A clone taken after the field was added shows it.
C11_WitnessInherited ==
    /\ Returned
    /\ ret.enc > 1
    /\ added[ret.enc] = added[1]
    /\ Len(added[1]) = 1
    /\ Shows(ret.json.buf, added[1][1].key)

(***************************************************************************)
(* C12.  NewConnSyncer dials exactly once.  When the dial fails it returns *)
(* the dial error and no syncer, and no connection is left open; when it   *)
(* succeeds it returns, with no error, a syncer holding that one           *)
(* connection, which is open.                                              *)
(***************************************************************************)
\* The step is the return of a NewConnSyncer call.
NewConnSyncerReturned == call'.seq # call.seq /\ call'.op = "NewConnSyncer"

C12_ConstructorDialsOnce ==
    [][NewConnSyncerReturned =>
          /\ call'.dials = 1
          /\ call'.writes = 0
          /\ call'.err # nilError =>
                /\ call'.err = Err("dial", nilConn)
                /\ syncer' = None
                /\ conns' = conns
                /\ OpenConns' = {}
          /\ call'.err = nilError =>
                /\ syncer' # None
                /\ Len(conns') = Len(conns) + 1
                /\ syncer'.conn = Len(conns')
                /\ conns'[syncer'.conn] = "open"
                /\ OpenConns' = {syncer'.conn}]_vars

\* The dial failed: no syncer, nothing open.
C12_Witness ==
    /\ call.op = "NewConnSyncer"
    /\ call.err = Err("dial", nilConn)
    /\ call.dials = 1
    /\ syncer = None
    /\ OpenConns = {}

\* The dial succeeded, after an earlier construction had failed.
C12_WitnessSuccess ==
    /\ call.op = "NewConnSyncer"
    /\ call.seq = 2
    /\ call.err = nilError
    /\ syncer # None
    /\ conns = <<"open">>
    /\ syncer.conn = 1

(***************************************************************************)
(* C13.  One Write call dials at most once and writes at most twice.  When *)
(* the write on the connection held succeeds, it closes nothing, dials     *)
(* nothing and leaves the syncer and its connection as they were.          *)
(* Otherwise it dials exactly once and, only when that dial succeeds,      *)
(* writes exactly once more; when that write fails, its answer is returned *)
(* and the new connection stays held: no further reconnect.                *)
(***************************************************************************)
\* The step is the return of a Write call.
WriteReturned == call'.seq # call.seq /\ call'.op = "Write"

C13_OneReconnectPerWrite ==
    [][WriteReturned =>
          LET firstOK == call'.first.err = nilError
              attempted == IF call'.held # nilConn THEN 1 ELSE 0
          IN  /\ call'.dials <= 1
              /\ call'.writes <= 2
              /\ firstOK =>
                    /\ call'.closes = 0
                    /\ call'.dials = 0
                    /\ call'.writes = 1
                    /\ syncer' = syncer
                    /\ conns' = conns
              /\ ~firstOK =>
                    /\ call'.dials = 1
                    /\ call'.writes = attempted + (IF call'.dial = "ok" THEN 1 ELSE 0)
                    /\ call'.dial = "ok" /\ call'.retry.err # nilError =>
                          /\ call'.err = call'.retry.err
                          /\ call'.n = call'.retry.n
                          /\ Len(conns') = Len(conns) + 1
                          /\ syncer'.conn = Len(conns')
                          /\ conns'[syncer'.conn] = "open"]_vars

\* Both writes failed: one dial, two writes, the second write's error.
C13_Witness ==
    /\ call.op = "Write"
    /\ call.first.err.op = "write"
    /\ call.dials = 1
    /\ call.writes = 2
    /\ call.err = call.retry.err
    /\ call.err.op = "write"
    /\ syncer.conn = Len(conns)

\* The first write succeeded: nothing else was done.
C13_WitnessFirstWrite ==
    /\ call.op = "Write"
    /\ call.first.err = nilError
    /\ call.dials = 0 /\ call.writes = 1 /\ call.closes = 0

(***************************************************************************)
(* C14.  Write returns success, with the length of p as its count, exactly *)
(* when the write on the connection held succeeds, or that write fails (or *)
(* no connection is held) and the redial and the one retried write         *)
(* succeed; so a Write after the peer closed the connection succeeds       *)
(* whenever the redial and the retried write do.  Otherwise it returns the *)
(* dial error with count 0, or the answer of the retried write.  The error *)
(* of the first write is never returned, and what Close answers changes    *)
(* nothing.                                                                *)
(***************************************************************************)
C14_WriteOutcome ==
    [][WriteReturned =>
          LET firstOK == call'.first.err = nilError
              redialOK == call'.dial = "ok"
              retryOK == call'.retry.err = nilError
              success == call'.err = nilError /\ call'.n = Len(call'.p)
          IN  /\ success <=> firstOK \/ (~firstOK /\ redialOK /\ retryOK)
              /\ call'.err = nilError => success
              /\ ~success =>
                    \/ /\ call'.dial = "failed"
                       /\ call'.err = Err("dial", nilConn)
                       /\ call'.n = 0
                    \/ /\ call'.dial = "ok"
                       /\ call'.err = call'.retry.err
                       /\ call'.n = call'.retry.n
              /\ call'.first.err.op = "write" => call'.err # call'.first.err
              /\ call'.heldState = "reset" /\ redialOK /\ retryOK => success
              /\ call'.err.op \in {"nil", "dial", "write"}]_vars

\* The peer had closed the connection and Close answered an error: the
\* write failed, the redial and the retried write succeeded, Write returned
\* success.
C14_Witness ==
    /\ call.op = "Write"
    /\ call.heldState = "reset"
    /\ call.first.err.op = "write"
    /\ call.close = "error"
    /\ call.dial = "ok"
    /\ call.err = nilError
    /\ call.n = Len(call.p)

\* The redial failed: the dial error and count 0.
C14_WitnessDialError ==
    /\ call.op = "Write"
    /\ call.first.err.op = "write"
    /\ call.dial = "failed"
    /\ call.err = Err("dial", nilConn)
    /\ call.n = 0

(***************************************************************************)
(* C15.  Whatever calls were made one after the other and whatever failed, *)
(* at most one connection of the syncer is open (opened and not closed),   *)
(* and it is the one the syncer holds: a connection held before a dial was *)
(* closed and dropped before that dial.                                    *)
(***************************************************************************)
C15_AtMostOneOpenConnection ==
    /\ Cardinality(OpenConns) <= 1
    /\ syncer = None => OpenConns = {}
    /\ syncer # None =>
          OpenConns = IF syncer.conn = nilConn THEN {} ELSE {syncer.conn}

\* After two reconnects: the third connection is open, the others closed.
C15_Witness ==
    /\ syncer # None
    /\ Len(conns) = 3
    /\ conns[1] = "closed" /\ conns[2] = "closed"
    /\ syncer.conn = 3
    /\ OpenConns = {3}

(***************************************************************************)
(* C16.  For every defined facility name, in any letter case,              *)
(* FacilityPriority returns the priority base of that facility (eight      *)
(* times its code) and no error, so "local0" and "LOCAL0" give the same    *)
(* value; for every other name it returns an error and priority 0.         *)
(***************************************************************************)
\* The facility names and their codes: kern 0 to ftp 11, local0 16 to
\* local7 23.
DefinedFacilities ==
    { [name |-> <<75, 69, 82, 78>>, code |-> 0],
      [name |-> <<85, 83, 69, 82>>, code |-> 1],
      [name |-> <<77, 65, 73, 76>>, code |-> 2],
      [name |-> <<68, 65, 69, 77, 79, 78>>, code |-> 3],
      [name |-> <<65, 85, 84, 72>>, code |-> 4],
      [name |-> <<83, 89, 83, 76, 79, 71>>, code |-> 5],
      [name |-> <<76, 80, 82>>, code |-> 6],
      [name |-> <<78, 69, 87, 83>>, code |-> 7],
      [name |-> <<85, 85, 67, 80>>, code |-> 8],
      [name |-> <<67, 82, 79, 78>>, code |-> 9],
      [name |-> <<65, 85, 84, 72, 80, 82, 73, 86>>, code |-> 10],
      [name |-> <<70, 84, 80>>, code |-> 11],
      [name |-> <<76, 79, 67, 65, 76, 48>>, code |-> 16],
      [name |-> <<76, 79, 67, 65, 76, 49>>, code |-> 17],
      [name |-> <<76, 79, 67, 65, 76, 50>>, code |-> 18],
      [name |-> <<76, 79, 67, 65, 76, 51>>, code |-> 19],
      [name |-> <<76, 79, 67, 65, 76, 52>>, code |-> 20],
      [name |-> <<76, 79, 67, 65, 76, 53>>, code |-> 21],
      [name |-> <<76, 79, 67, 65, 76, 54>>, code |-> 22],
      [name |-> <<76, 79, 67, 65, 76, 55>>, code |-> 23] }

\* The characters whose upper case is the ASCII capital u: its small letter,
\* and for I and S also the dotless i (U+0131) and the long s (U+017F).
LowerForms(u) ==
    {<<u + 32>>}
    \cup (IF u = 73 THEN {<<196, 177>>} ELSE {})
    \cup (IF u = 83 THEN {<<197, 191>>} ELSE {})

\* name is the defined name d in some letter case: character by character
\* the character of d or, for a letter, one of its lower-case forms.
RECURSIVE InSomeLetterCase(_, _)
InSomeLetterCase(name, d) ==
    IF Len(d) = 0 THEN Len(name) = 0
    ELSE \/ /\ Len(name) > 0
            /\ name[1] = d[1]
            /\ InSomeLetterCase(Tail(name), Tail(d))
         \/ /\ d[1] \in 65..90
            /\ \E l \in LowerForms(d[1]) :
                  /\ IsPrefix(l, name)
                  /\ InSomeLetterCase(SubSeq(name, Len(l) + 1, Len(name)), Tail(d))

C16_FacilityLookup ==
    lookup # None =>
        LET named == {e \in DefinedFacilities : InSomeLetterCase(lookup.name, e.name)}
        IN  /\ \A e \in named :
                  /\ lookup.ret.prio = e.code * 8
                  /\ lookup.ret.err.isNil
            /\ named = {} =>
                  /\ ~lookup.ret.err.isNil
                  /\ lookup.ret.prio = 0

\* "local0" resolves to 128, as "LOCAL0" does, with no error.
C16_Witness ==
    /\ lookup # None
    /\ lookup.name = <<108, 111, 99, 97, 108, 48>>
    /\ lookup.ret.prio = 128
    /\ lookup.ret.err.isNil
    /\ FacilityPriority(<<76, 79, 67, 65, 76, 48>>) = lookup.ret

\* "<UNKNOWN>" is answered with an error and priority 0.
C16_WitnessUnknown ==
    /\ lookup # None
    /\ lookup.name = <<60, 85, 78, 75, 78, 79, 87, 78, 62>>
    /\ lookup.ret.prio = 0
    /\ ~lookup.ret.err.isNil

\* "mail" written with a dotless i resolves to 16: its upper case is "MAIL".
C16_WitnessDotlessI ==
    /\ lookup # None
    /\ lookup.name = <<109, 97, 196, 177, 108>>
    /\ lookup.ret.prio = 16
    /\ lookup.ret.err.isNil

(***************************************************************************)
(* C17.  Several goroutines call Write on one shared syncer with no lock,  *)
(* against an endpoint that accepts every dial: in every interleaving      *)
(* every call returns without error, no call writes on an absent (nil)     *)
(* connection, and once the calls have returned the syncer holds at most   *)
(* one open connection and no connection is open and unreferenced.         *)
(***************************************************************************)
\* Every goroutine is outside Write.
AllReturned == \A t \in DOMAIN threads : threads[t].pc = "idle"

C18_ConfigNeverChanges ==
    [][cfg # None => cfg' = cfg]_vars

\* EncodeEntry on a clone, after a field-adding call, of an encoder whose
\* app-name normalization would change: the configuration is still the one
\* construction stored.
C18_Witness ==
    /\ Returned
    /\ ret.enc > 1
    /\ adds > 0
    /\ cfg.App # NormalizedApp(cfg.App)
    /\ cfg = [cfgIn EXCEPT !.LineEnding = <<10>>]

(***************************************************************************)
(* C19.  When EncodeEntry returns, every pooled buffer the call held (the  *)
(* message buffer, the payload buffer handed over by the payload encoder,  *)
(* and under octet counting the framed output buffer) is either the one    *)
(* buffer returned or has been released exactly once, and the returned     *)
(* buffer has not been released.                                           *)
(***************************************************************************)
C19_BuffersReturnedOrReleased ==
    Returned =>
        /\ \A b \in ret.bufs :
              \/ b.returned /\ b.frees = 0
              \/ ~b.returned /\ b.frees = 1
        /\ Cardinality({b \in ret.bufs : b.returned}) = 1

(***************************************************************************)
(* C20.  A Write whose redial fails leaves the syncer holding no           *)
(* connection, the old one closed.  Every later Write dials again, without *)
(* writing on an absent connection first, and the first one whose dial and *)
(* write succeed returns success and leaves the syncer holding the new     *)
(* connection.                                                             *)
(***************************************************************************)
C20_RecoversAfterFailedRedial ==
    [][WriteReturned =>
          /\ call'.dial = "failed" =>
                /\ syncer'.conn = nilConn
                /\ OpenConns' = {}
          /\ syncer.conn = nilConn =>
                /\ call'.first = NoWrite
                /\ call'.dials = 1
                /\ call'.dial = "ok" /\ call'.retry.err = nilError =>
                      /\ call'.err = nilError
                      /\ call'.n = Len(call'.p)
                      /\ Len(conns') = Len(conns) + 1
                      /\ syncer'.conn = Len(conns')
                      /\ conns'[syncer'.conn] = "open"
                      /\ OpenConns' = {syncer'.conn}]_vars

\* The Write began with no connection, after a failed redial, and succeeded.
C20_Witness ==
    /\ call.op = "Write"
    /\ call.held = nilConn
    /\ Len(conns) = 2
    /\ conns[1] = "closed"
    /\ call.dial = "ok"
    /\ call.err = nilError
    /\ syncer.conn = 2
    /\ conns[2] = "open"

\* The Write began with no connection and its dial failed again.
C20_WitnessStillDown ==
    /\ call.op = "Write"
    /\ call.held = nilConn
    /\ call.dial = "failed"
    /\ call.err = Err("dial", nilConn)
    /\ syncer.conn = nilConn

====
